---------------------------- MODULE Spec2Model ----------------------------
(***************************************************************************)
(* The three table-model adapters of the repository as one state machine:  *)
(*   "py"   PythonTableModel   (src/tableModel.py), rows in a Python list  *)
(*   "iris" IrisTableModel     (src/irisTableModel.py), rows in DuckDB     *)
(*   "pg"   PostgresTableModel (src/postgresTableModel.py), rows in a      *)
(*          Polars DataFrame                                               *)
(* main.py constructs exactly one of them; `adapter` records which.  Every *)
(* action is one whole call of one method of that adapter.                 *)
(***************************************************************************)
EXTENDS Integers, Sequences, FiniteSets, TLC

VARIABLES
    adapter,            \* which model main.py constructed ("both": the
                        \* list-backed and the embedded-database one, for
                        \* the comparison of the two)
    data,               \* PythonTableModel._data: list of rows
    iris,               \* the DuckDB table iris, rows in insertion order
    cached_row_count,   \* IrisTableModel._cached_row_count
    df,                 \* PostgresTableModel._df: rows of the DataFrame
    sort_column,        \* _sort_column of the constructed adapter
    sort_order,         \* _sort_order of the constructed adapter
    emitted,            \* the Qt signals the last call emitted, in order
    call,               \* the last call: method, arguments, return value
    prev,               \* the call before the last one: its method and
                        \* result, and for a sort its arguments
    pre,                \* the adapter's state when the last call was made
    steps,              \* number of calls made so far
    failures            \* number of calls in which the database failed

vars == <<adapter, data, iris, cached_row_count, df, sort_column, sort_order,
          emitted, call, prev, pre, steps, failures>>

-----------------------------------------------------------------------------
(* Bounds of the exploration.                                              *)

\* calls per behaviour
MaxSteps == 2
\* the count arguments tried are 0..MaxCount
MaxCount == 2
\* a behaviour starts with at most this many rows (or, for the list-backed
\* adapter, with the whole seed)
MaxInitRows == 3
\* the database fails in at most this many calls of a behaviour
MaxFailures == 1

-----------------------------------------------------------------------------
(* Cell values.  A Python int, float, str or None is a record of one       *)
(* shape, so that any two cells can be compared.  A float is held in       *)
(* thousandths: F(95500) is 95.5.                                          *)

I(n) == [k |-> "int", n |-> n, s |-> ""]
F(m) == [k |-> "float", n |-> m, s |-> ""]
S(t) == [k |-> "str", n |-> 0, s |-> t]
None == [k |-> "none", n |-> 0, s |-> ""]

\* The texts a user types into a cell editor.
RawValues == {"thirty", "30", "7.126"}

\* Python's int(value) for the texts of RawValues: only an integer literal
\* parses, anything else raises ValueError.
PyInt(value) ==
    CASE value = "30" -> [ok |-> TRUE, v |-> I(30)]
      [] OTHER -> [ok |-> FALSE, v |-> None]

\* Python's float(value) for the texts of RawValues.
PyFloat(value) ==
    CASE value = "30" -> [ok |-> TRUE, v |-> F(30000)]
      [] value = "7.126" -> [ok |-> TRUE, v |-> F(7126)]
      [] OTHER -> [ok |-> FALSE, v |-> None]

\* Python's float(x) of a stored number, in thousandths.
FloatOf(v) == IF v.k = "int" THEN v.n * 1000 ELSE v.n

\* The digits after the point of repr(float): trailing zeros dropped, one
\* digit kept.
FracDigits(frac) ==
    LET d1 == frac \div 100
        d2 == (frac \div 10) % 10
        d3 == frac % 10
    IN  ToString(d1) \o
        (IF d2 = 0 /\ d3 = 0 THEN ""
         ELSE ToString(d2) \o (IF d3 = 0 THEN "" ELSE ToString(d3)))

\* Python's str(value).
PyStr(v) ==
    CASE v.k = "int" -> ToString(v.n)
      [] v.k = "float" -> ToString(v.n \div 1000) \o "." \o FracDigits(v.n % 1000)
      [] v.k = "str" -> v.s
      [] OTHER -> "None"

\* Python's f"{value:.2f}": rounded to hundredths (no value of the model
\* lies exactly between two hundredths).
Format2f(m) ==
    LET h == (m + 5) \div 10
    IN  ToString(h \div 100) \o "." \o ToString((h \div 10) % 10) \o ToString(h % 10)

\* Every text a text column can hold, in code-point order: the order of
\* Python's str comparison and of DuckDB's VARCHAR comparison.
TextOrder ==
    << "", "30", "7.126", "Active", "Alice", "Austin", "Bob", "Boston",
       "Charlie", "Chicago", "Denver", "Diana", "Eve", "Frank", "Grace",
       "Henry", "Inactive", "Ivy", "Jack", "Miami",
       "New Person 1", "New Person 10", "New Person 11", "New Person 12",
       "New Person 13", "New Person 14", "New Person 15", "New Person 16",
       "New Person 17", "New Person 18", "New Person 19", "New Person 2",
       "New Person 20", "New Person 21", "New Person 22", "New Person 23",
       "New Person 24", "New Person 3", "New Person 4", "New Person 5",
       "New Person 6", "New Person 7", "New Person 8", "New Person 9",
       "New York", "Phoenix", "Portland", "San Francisco", "Seattle",
       "Unknown", "done", "open", "setosa", "thirty", "versicolor",
       "virginica" >>

TextRank(t) == CHOOSE i \in 1..Len(TextOrder) : TextOrder[i] = t

-----------------------------------------------------------------------------
(* What a call leaves behind for its caller and for the view.              *)

Ascending == "AscendingOrder"
Descending == "DescendingOrder"
SortOrders == {Ascending, Descending}

State(d, t, crc, f, sc, so) ==
    [data |-> d, iris |-> t, cached_row_count |-> crc, df |-> f,
     sort_column |-> sc, sort_order |-> so]

Current == State(data, iris, cached_row_count, df, sort_column, sort_order)

\* A signal, with the state the connected slots see while it is emitted.
Signal(sig, first, last, at) ==
    [sig |-> sig, first |-> first, last |-> last,
     topLeft |-> <<-1, -1>>, bottomRight |-> <<-1, -1>>, at |-> at]

\* dataChanged.emit(index, index, [DisplayRole, EditRole])
DataChanged(row, column, at) ==
    [sig |-> "dataChanged", first |-> -1, last |-> -1,
     topLeft |-> <<row, column>>, bottomRight |-> <<row, column>>, at |-> at]

\* ok is the return value (for sort, which returns nothing: whether it
\* passed its column check); result is what a read returned; failed tells
\* that a statement sent to the database raised inside the call.
Call(op, row, column, count, value, order, ok) ==
    [op |-> op, row |-> row, column |-> column, count |-> count,
     value |-> value, order |-> order, ok |-> ok, raised |-> FALSE,
     failed |-> FALSE, orientation |-> "", role |-> "", result |-> None]

\* The call c, in which the database raised and the handler caught it.
Failed(c) == [c EXCEPT !.failed = TRUE]

\* The read c for the role, which returned v.
Read(c, role, v) == [c EXCEPT !.role = role, !.result = v]

NoCall == Call("none", 0, 0, 0, "", Ascending, FALSE)

\* A call is made on the adapter that was constructed, while the behaviour
\* has calls left.
Ready(a) == adapter = a /\ steps < MaxSteps

\* The bookkeeping every call shares: what was called, what it returned,
\* what it emitted, and the state it started from.
Returns(c, sigs) ==
    /\ steps' = steps + 1
    /\ prev' = IF call.op = "sort" THEN call
               ELSE [Call(call.op, 0, 0, 0, "", Ascending, call.ok)
                        EXCEPT !.failed = call.failed]
    /\ call' = c
    /\ failures' = failures + (IF c.failed THEN 1 ELSE 0)
    /\ emitted' = sigs
    /\ pre' = Current

\* The arguments tried when the model has n rows and nc columns: calls that
\* pass every check, at the first, the second and the last position, and
\* calls that fail each check.
InitRowCounts == 0..MaxInitRows
InsertArgs(n) ==
    ({r \in {0, 1, n} : r <= n} \X (1..MaxCount))
    \cup {<<-1, 1>>, <<n + 1, 1>>, <<0, 0>>}
RemoveArgs(n) ==
    ({r \in {0, 1, n - 1} : 0 <= r} \X (1..MaxCount))
    \cup {<<-1, 1>>, <<n, 1>>, <<0, 0>>}
SortArgs(columns, nc) ==
    (columns \X SortOrders) \cup ({-1, nc} \X {"AscendingOrder"})
AddRowArgs(n) == {-2, 0, n + 1}
AddRowsArgs(n) == {<<-1, MaxCount>>, <<0, MaxCount>>, <<n + 1, 1>>, <<-1, 0>>}
DataArgs(n, nc) ==
    ({0} \X {nc - 1} \X {"DisplayRole", "EditRole"})
    \cup ({-1, n} \X {0} \X {"DisplayRole"})
    \cup {<<0, nc, "EditRole">>, <<0, 0, "DecorationRole">>}
HeaderArgs(n, nc) ==
    ({-1, 0, n} \X {"Vertical"} \X {"DisplayRole"})
    \cup {<<0, "Horizontal", "DisplayRole">>, <<nc, "Horizontal", "DisplayRole">>,
          <<0, "Vertical", "EditRole">>}
SetDataArgs(n, columns, nc) ==
    ({0} \X columns \X RawValues)
    \cup ({r \in {n - 1} : 0 < r} \X columns \X {"30"})
    \cup ({-1, n} \X {1} \X {"30"})
    \cup ({0} \X {-1, nc} \X {"30"})

\* What sorted(...)[::-1] would compute for reverse=True in place of
\* list.sort(reverse=True): rows of equal key come out in the opposite of
\* the order they had.  C8 does not hold of it.
SortPermReversed(keys, reverse) ==
    LET n == Len(keys)
        ks == keys \o << >>
        Before(a, b) == IF reverse THEN a > b ELSE a < b
        Rank(j) == Cardinality({m \in 1..n : Before(ks[m], ks[j])})
                   + (IF reverse
                      THEN Cardinality({m \in (j + 1)..n : ks[m] = ks[j]})
                      ELSE Cardinality({m \in 1..(j - 1) : ks[m] = ks[j]})) + 1
        ranks == [j \in 1..n |-> Rank(j)] \o << >>
    IN  [i \in 1..n |-> CHOOSE j \in 1..n : ranks[j] = i]

\* sorted(range(n), key=keys.__getitem__, reverse=reverse) as list.sort
\* computes it: ordered by key, and rows of equal key keep the order they
\* had (also with reverse=True).  Indices are 1-based.
SortPerm(keys, reverse) ==
    LET n == Len(keys)
        ks == keys \o << >>
        Before(a, b) == IF reverse THEN a > b ELSE a < b
        Rank(j) == Cardinality({m \in 1..n : Before(ks[m], ks[j])})
                   + Cardinality({m \in 1..(j - 1) : ks[m] = ks[j]}) + 1
        ranks == [j \in 1..n |-> Rank(j)] \o << >>
    IN  [i \in 1..n |-> CHOOSE j \in 1..n : ranks[j] = i]

-----------------------------------------------------------------------------
(* PythonTableModel (src/tableModel.py)                                    *)

PyColumns == <<"Name", "Age", "City", "Score", "Status">>

SeedData ==
    << <<S("Alice"), I(28), S("New York"), F(95500), S("Active")>>,
       <<S("Bob"), I(34), S("San Francisco"), F(87200), S("Active")>>,
       <<S("Charlie"), I(25), S("Seattle"), F(92800), S("Inactive")>>,
       <<S("Diana"), I(31), S("Austin"), F(88900), S("Active")>>,
       <<S("Eve"), I(29), S("Boston"), F(91300), S("Active")>>,
       <<S("Frank"), I(42), S("Chicago"), F(85600), S("Inactive")>>,
       <<S("Grace"), I(27), S("Denver"), F(94200), S("Active")>>,
       <<S("Henry"), I(36), S("Portland"), F(89700), S("Active")>>,
       <<S("Ivy"), I(30), S("Miami"), F(93100), S("Active")>>,
       <<S("Jack"), I(33), S("Phoenix"), F(86400), S("Inactive")>> >>

\* rowCount() / columnCount() of the list-backed adapter
PyRowCount(d) == Len(d)
PyColumnCount == Len(PyColumns)

\* The roles data() is asked for.
Roles == {"DisplayRole", "EditRole", "DecorationRole"}

\* A data() that returns the text of the cell for every role.  C17 does not
\* hold of it.
PyDataAnyRole(d, row, column, role) ==
    IF row < 0 \/ row >= Len(d) THEN None
    ELSE IF column < 0 \/ column >= Len(PyColumns) THEN None
    ELSE S(PyStr(d[row + 1][column + 1]))

\* data(index, role): None for an index out of range or another role
PyData(d, row, column, role) ==
    IF row < 0 \/ row >= Len(d) THEN None
    ELSE IF column < 0 \/ column >= Len(PyColumns) THEN None
    ELSE IF role \in {"DisplayRole", "EditRole"} THEN S(PyStr(d[row + 1][column + 1]))
    ELSE None

\* the bounds checks of setData: index.row() and index.column() in range
PySetDataInRange(d, row, column) ==
    /\ ~(row < 0 \/ row >= Len(d))
    /\ ~(column < 0 \/ column >= Len(PyColumns))

\* the conversion of setData: int for Age, float for Score, str otherwise;
\* ok is FALSE where the code catches ValueError/TypeError
PyCoerce(column, value) ==
    IF column = 1 THEN PyInt(value)
    ELSE IF column = 3 THEN PyFloat(value)
    ELSE [ok |-> TRUE, v |-> S(value)]

\* self._data[index.row()][index.column()] = value
PyAssign(d, row, column, v) ==
    [d EXCEPT ![row + 1] = [@ EXCEPT ![column + 1] = v]]

PySetData(row, column, value) ==
    /\ Ready("py")
    /\ LET c == PyCoerce(column, value)
           hit == PySetDataInRange(data, row, column) /\ c.ok
           d2 == IF hit THEN PyAssign(data, row, column, c.v) ELSE data
       IN  /\ data' = d2
           /\ Returns(Call("setData", row, column, 0, value, Ascending, hit),
                      IF hit
                      THEN << DataChanged(row, column,
                                State(d2, iris, cached_row_count, df,
                                      sort_column, sort_order)) >>
                      ELSE << >>)
    /\ UNCHANGED <<adapter, iris, cached_row_count, df, sort_column, sort_order>>

\* the early return of sort
PySortAccepts(column) == ~(column < 0 \/ column >= Len(PyColumns))

\* the sort key: float(row[column]) for Age and Score, str(row[column])
\* otherwise, and for every row when float() fails on one of them
PySortKeys(d, column) ==
    IF column \in {1, 3} /\ \A i \in 1..Len(d) : d[i][column + 1].k \in {"int", "float"}
    THEN [i \in 1..Len(d) |-> FloatOf(d[i][column + 1])]
    ELSE [i \in 1..Len(d) |-> TextRank(PyStr(d[i][column + 1]))]

\* self._data.sort(key=..., reverse=reverse)
PySorted(d, column, order) ==
    LET p == SortPerm(PySortKeys(d, column), order = Descending)
    IN  [i \in 1..Len(d) |-> d[p[i]]] \o << >>

\* A sort that emits layoutAboutToBeChanged only after it has stored the
\* sort state and sorted the list.  C9 does not hold of it.
PySortSignalsLate(before, after) ==
    << Signal("layoutAboutToBeChanged", -1, -1, after),
       Signal("layoutChanged", -1, -1, after) >>

\* The signals of sort with the state each is emitted in: the opening one
\* before _sort_column, _sort_order and _data are touched, the closing one
\* after the list is sorted.
PySortSignals(before, after) ==
    << Signal("layoutAboutToBeChanged", -1, -1, before),
       Signal("layoutChanged", -1, -1, after) >>

PySort(column, order) ==
    /\ Ready("py")
    /\ IF PySortAccepts(column)
       THEN LET d2 == PySorted(data, column, order)
            IN  /\ data' = d2
                /\ sort_column' = column
                /\ sort_order' = order
                /\ Returns(Call("sort", 0, column, 0, "", order, TRUE),
                           PySortSignals(Current,
                               State(d2, iris, cached_row_count, df, column, order)))
       ELSE /\ UNCHANGED <<data, sort_column, sort_order>>
            /\ Returns(Call("sort", 0, column, 0, "", order, FALSE), << >>)
    /\ UNCHANGED <<adapter, iris, cached_row_count, df>>

\* the validation of insertRows
PyInsertValid(d, row, count) == ~(row < 0 \/ row > Len(d)) /\ ~(count < 1)

\* the default row, named after the length of the list when it is made
PyDefaultRow(d) ==
    << S("New Person " \o ToString(Len(d) + 1)), I(25), S("Unknown"), F(0), S("Active") >>

\* list.insert(at, x) for 0 <= at <= len
ListInsert(d, at, x) == SubSeq(d, 1, at) \o <<x>> \o SubSeq(d, at + 1, Len(d))

\* for i in range(count): self._data.insert(row + i, default_row)
RECURSIVE PyInsertLoop(_, _, _, _)
PyInsertLoop(d, row, i, count) ==
    IF i >= count THEN d
    ELSE PyInsertLoop(ListInsert(d, row + i, PyDefaultRow(d)), row, i + 1, count)

\* beginInsertRows(parent, row, row + count - 1) ... endInsertRows()
InsertSignals(row, count, before, after) ==
    << Signal("rowsAboutToBeInserted", row, row + count - 1, before),
       Signal("rowsInserted", row, row + count - 1, after) >>

\* insertRows(row, count), entered as the call op(arg, ...) of the view
PyInsertRowsFrom(op, arg, row, count) ==
    /\ IF PyInsertValid(data, row, count)
       THEN LET d2 == PyInsertLoop(data, row, 0, count)
            IN  /\ data' = d2
                /\ Returns(Call(op, arg, 0, count, "", Ascending, TRUE),
                           InsertSignals(row, count, Current,
                               State(d2, iris, cached_row_count, df,
                                     sort_column, sort_order)))
       ELSE /\ data' = data
            /\ Returns(Call(op, arg, 0, count, "", Ascending, FALSE), << >>)
    /\ UNCHANGED <<adapter, iris, cached_row_count, df, sort_column, sort_order>>

PyInsertRows(row, count) ==
    /\ Ready("py")
    /\ PyInsertRowsFrom("insertRows", row, row, count)

\* A negative row taken for the first position instead of the end.  C19
\* does not hold of it.
PyAddTargetFront(n, row) == IF row < 0 THEN 0 ELSE row

\* if row < 0: row = len(self._data)
PyAddTarget(n, row) == IF row < 0 THEN n ELSE row

\* addRow(row): return self.insertRows(row, 1)
PyAddRow(row) ==
    /\ Ready("py")
    /\ PyInsertRowsFrom("addRow", row, PyAddTarget(Len(data), row), 1)

\* addRows(row, count): return self.insertRows(row, count)
PyAddRows(row, count) ==
    /\ Ready("py")
    /\ PyInsertRowsFrom("addRows", row, PyAddTarget(Len(data), row), count)

\* the validation of removeRows
PyRemoveValid(d, row, count) ==
    /\ ~(row < 0 \/ row >= Len(d))
    /\ ~(count < 1)
    /\ ~(row + count > Len(d))

\* del d[at]
ListDelete(d, at) == SubSeq(d, 1, at) \o SubSeq(d, at + 2, Len(d))

\* for i in range(count): del self._data[row]
RECURSIVE PyRemoveLoop(_, _, _, _)
PyRemoveLoop(d, row, i, count) ==
    IF i >= count THEN d
    ELSE PyRemoveLoop(ListDelete(d, row), row, i + 1, count)

\* beginRemoveRows(parent, row, row + count - 1) ... endRemoveRows()
RemoveSignals(row, count, before, after) ==
    << Signal("rowsAboutToBeRemoved", row, row + count - 1, before),
       Signal("rowsRemoved", row, row + count - 1, after) >>

PyRemoveRows(row, count) ==
    /\ Ready("py")
    /\ IF PyRemoveValid(data, row, count)
       THEN LET d2 == PyRemoveLoop(data, row, 0, count)
            IN  /\ data' = d2
                /\ Returns(Call("removeRows", row, 0, count, "", Ascending, TRUE),
                           RemoveSignals(row, count, Current,
                               State(d2, iris, cached_row_count, df,
                                     sort_column, sort_order)))
       ELSE /\ data' = data
            /\ Returns(Call("removeRows", row, 0, count, "", Ascending, FALSE), << >>)
    /\ UNCHANGED <<adapter, iris, cached_row_count, df, sort_column, sort_order>>

\* PythonTableModel.__init__: the seed rows, no sort column.  A behaviour
\* may also start from the first rows of the seed only, the state one
\* removeRows call reaches from it.
\* data(index, role) called by the view
PyReadData(row, column, role) ==
    /\ Ready("py")
    /\ Returns(Read(Call("data", row, column, 0, "", Ascending, TRUE), role,
                    PyData(data, row, column, role)), << >>)
    /\ UNCHANGED <<adapter, data, iris, cached_row_count, df, sort_column, sort_order>>

\* headerData(section, orientation, role): "" for another role and for a
\* section out of range, the column name, or the row number as text
PyHeaderData(d, section, orientation, role) ==
    IF role # "DisplayRole" THEN S("")
    ELSE IF orientation = "Horizontal"
    THEN (IF 0 <= section /\ section < Len(PyColumns)
          THEN S(PyColumns[section + 1]) ELSE S(""))
    ELSE IF orientation = "Vertical"
    THEN (IF 0 <= section /\ section < Len(d)
          THEN S(PyStr(I(section + 1))) ELSE S(""))
    ELSE S("")

PyReadHeader(section, orientation, role) ==
    /\ Ready("py")
    /\ Returns(Read([Call("headerData", section, 0, 0, "", Ascending, TRUE)
                         EXCEPT !.orientation = orientation], role,
                    PyHeaderData(data, section, orientation, role)), << >>)
    /\ UNCHANGED <<adapter, data, iris, cached_row_count, df, sort_column, sort_order>>

PyInit ==
    /\ adapter = "py"
    /\ \E n \in InitRowCounts \cup {Len(SeedData)} : data = SubSeq(SeedData, 1, n)
    /\ iris = << >>
    /\ cached_row_count = 0
    /\ df = << >>
    /\ sort_column = -1
    /\ sort_order = Ascending

\* the columns written and sorted: Age (int), Score (float), Status (str)
PyEditColumns == {1, 3, 4}

PyNext ==
    \/ \E a \in SetDataArgs(Len(data), PyEditColumns, Len(PyColumns)) : PySetData(a[1], a[2], a[3])
    \/ \E a \in SortArgs(PyEditColumns, Len(PyColumns)) : PySort(a[1], a[2])
    \/ \E a \in InsertArgs(Len(data)) : PyInsertRows(a[1], a[2])
    \/ \E a \in RemoveArgs(Len(data)) : PyRemoveRows(a[1], a[2])
    \/ \E a \in DataArgs(Len(data), Len(PyColumns)) : PyReadData(a[1], a[2], a[3])
    \/ \E a \in HeaderArgs(Len(data), Len(PyColumns)) : PyReadHeader(a[1], a[2], a[3])
    \/ \E r \in AddRowArgs(Len(data)) : PyAddRow(r)
    \/ \E a \in AddRowsArgs(Len(data)) : PyAddRows(a[1], a[2])

-----------------------------------------------------------------------------
(* IrisTableModel (src/irisTableModel.py)                                  *)
(* A row of the table is <<id, sepal_length, sepal_width, petal_length,    *)
(* petal_width, species>>, as the SELECT of _get_row_by_position lists it. *)

IrisColumns ==
    <<"sepal_length", "sepal_width", "petal_length", "petal_width", "species">>

\* The first rows _init_database loads from the iris dataset.
IrisSeed ==
    << <<I(0), F(5100), F(3500), F(1400), F(200), S("setosa")>>,
       <<I(1), F(4900), F(3000), F(1400), F(200), S("setosa")>>,
       <<I(2), F(4700), F(3200), F(1300), F(200), S("setosa")>>,
       <<I(3), F(4600), F(3100), F(1500), F(200), S("setosa")>>,
       <<I(4), F(5000), F(3600), F(1400), F(200), S("setosa")>> >>

\* fetchone() found no row
NoRow == << >>

\* SELECT COUNT(*) FROM iris
IrisGetRowCount(t) == Len(t)

\* The value ORDER BY compares: the number of a DOUBLE column, the rank of
\* a VARCHAR in code-point order.
IrisOrderKey(r, column) ==
    IF r[column + 2].k = "str" THEN TextRank(r[column + 2].s) ELSE r[column + 2].n

\* A lookup whose query has no ORDER BY clause, whatever the sort state.
\* C7 does not hold of it.
IrisRowsAtInsertionOrder(t, sc, so, row) ==
    IF row < Len(t) THEN {t[row + 1]} ELSE {}

\* The rows "SELECT ... [ORDER BY col ASC|DESC] LIMIT 1 OFFSET row" can
\* return.  Without ORDER BY the table is scanned in insertion order.  With
\* it, rows are ordered by the one column and SQL leaves the order of rows
\* that are equal in it open: each such row may be found at every offset
\* the group of its equals covers.
IrisRowsAt(t, sc, so, row) ==
    IF sc >= 0
    THEN LET ks == [i \in 1..Len(t) |-> IrisOrderKey(t[i], sc)] \o << >>
             Before(a, b) == IF so = Descending THEN a > b ELSE a < b
             lo(i) == Cardinality({j \in 1..Len(t) : Before(ks[j], ks[i])})
             hi(i) == Cardinality({j \in 1..Len(t) : ~Before(ks[i], ks[j])})
         IN  {t[i] : i \in {j \in 1..Len(t) : lo(j) <= row /\ row < hi(j)}}
    ELSE IF row < Len(t) THEN {t[row + 1]} ELSE {}

\* _get_row_by_position(row): the results one call can have
IrisGetRowByPosition(t, sc, so, row) ==
    IF IrisRowsAt(t, sc, so, row) = {} THEN {NoRow} ELSE IrisRowsAt(t, sc, so, row)

\* rowCount() / columnCount() of the embedded-database adapter
IrisRowCount(crc) == crc
IrisColumnCount == Len(IrisColumns)

\* the text data() makes of a value: floats with two decimals, anything
\* else through str
IrisText(v) == IF v.k = "float" THEN Format2f(v.n) ELSE PyStr(v)

\* data(index, role): the results one call can have; None for an index out
\* of range, another role, or a lookup that found no row
IrisData(t, crc, sc, so, row, column, role) ==
    IF row < 0 \/ row >= crc THEN {None}
    ELSE IF column < 0 \/ column >= Len(IrisColumns) THEN {None}
    ELSE IF role \in {"DisplayRole", "EditRole"}
    THEN {IF rd = NoRow THEN None ELSE S(IrisText(rd[column + 2])) :
              rd \in IrisGetRowByPosition(t, sc, so, row)}
    ELSE {None}

\* the bounds checks of setData, against the cached row count
IrisSetDataInRange(crc, row, column) ==
    /\ ~(row < 0 \/ row >= crc)
    /\ ~(column < 0 \/ column >= Len(IrisColumns))

\* A conversion that takes petal_width for a text column.  C5 does not hold
\* of it.
IrisCoerceThreeMeasures(column, value) ==
    IF column < 3 THEN PyFloat(value) ELSE [ok |-> TRUE, v |-> S(value)]

\* the conversion of setData: float for the four measures, str for species
IrisCoerce(column, value) ==
    IF column < 4 THEN PyFloat(value) ELSE [ok |-> TRUE, v |-> S(value)]

\* An UPDATE with no WHERE clause: every row gets the value.  C15 does not
\* hold of it.
IrisUpdateEveryRow(t, column, v, row_id) ==
    [i \in 1..Len(t) |-> [t[i] EXCEPT ![column + 2] = v]] \o << >>

\* UPDATE iris SET <column> = value WHERE id = row_id
IrisUpdate(t, column, v, row_id) ==
    [i \in 1..Len(t) |->
        IF t[i][1] = row_id THEN [t[i] EXCEPT ![column + 2] = v] ELSE t[i]] \o << >>

IrisSetData(row, column, value) ==
    /\ Ready("iris")
    /\ IF IrisSetDataInRange(cached_row_count, row, column)
       THEN \E rd \in IrisGetRowByPosition(iris, sort_column, sort_order, row) :
              LET c == IrisCoerce(column, value)
                  hit == rd # NoRow /\ c.ok
                  t2 == IF hit THEN IrisUpdate(iris, column, c.v, rd[1]) ELSE iris
              IN  \/ /\ iris' = t2
                     /\ Returns(Call("setData", row, column, 0, value, Ascending, hit),
                                IF hit
                                THEN << DataChanged(row, column,
                                          State(data, t2, cached_row_count, df,
                                                sort_column, sort_order)) >>
                                ELSE << >>)
                  \* the UPDATE raises: caught, False
                  \/ /\ hit
                     /\ failures < MaxFailures
                     /\ iris' = iris
                     /\ Returns(Failed(Call("setData", row, column, 0, value,
                                            Ascending, FALSE)), << >>)
       ELSE /\ iris' = iris
            /\ Returns(Call("setData", row, column, 0, value, Ascending, FALSE), << >>)
    /\ UNCHANGED <<adapter, data, cached_row_count, df, sort_column, sort_order>>

\* An early return of sort that checks the upper end of the range only.
\* C10 does not hold of it.
IrisSortAcceptsNegative(column) == ~(column >= Len(IrisColumns))

\* the early return of sort
IrisSortAccepts(column) == ~(column < 0 \/ column >= Len(IrisColumns))

\* what sort stores: the table itself is not touched
IrisSortState(column, order) == <<column, order>>

IrisSortSignals(before, after) ==
    << Signal("layoutAboutToBeChanged", -1, -1, before),
       Signal("layoutChanged", -1, -1, after) >>

IrisSort(column, order) ==
    /\ Ready("iris")
    /\ IF IrisSortAccepts(column)
       THEN LET s == IrisSortState(column, order)
            IN  /\ sort_column' = s[1]
                /\ sort_order' = s[2]
                /\ Returns(Call("sort", 0, column, 0, "", order, TRUE),
                           IrisSortSignals(Current,
                               State(data, iris, cached_row_count, df, s[1], s[2])))
       ELSE /\ UNCHANGED <<sort_column, sort_order>>
            /\ Returns(Call("sort", 0, column, 0, "", order, FALSE), << >>)
    /\ UNCHANGED <<adapter, data, iris, cached_row_count, df>>

\* A validation of insertRows that lets a position past the end through.
\* C2 does not hold of it.
IrisInsertValidPastEnd(crc, row, count) == ~(row < 0) /\ ~(count < 1)

\* the validation of insertRows, against the cached row count
IrisInsertValid(crc, row, count) == ~(row < 0 \/ row > crc) /\ ~(count < 1)

\* A next id taken from the number of rows, SELECT COUNT(*) FROM iris, in
\* place of the largest id.  C21 does not hold of it.
IrisNextIdByCount(t) == Len(t)

\* SELECT MAX(id) FROM iris, plus one; 0 for an empty table
IrisNextId(t) ==
    IF t = << >> THEN 0
    ELSE (CHOOSE m \in {t[i][1].n : i \in 1..Len(t)} :
              \A i \in 1..Len(t) : t[i][1].n <= m) + 1

IrisDefaultRow(id) == <<I(id), F(5000), F(3000), F(4000), F(1000), S("setosa")>>

\* for i in range(count): INSERT INTO iris VALUES (next_id + i, ...)
IrisInserted(t, count) ==
    t \o [i \in 1..count |-> IrisDefaultRow(IrisNextId(t) + i - 1)]

\* insertRows(row, count), entered as the call op(arg, ...) of the view
IrisInsertRowsFrom(op, arg, row, count) ==
    /\ IF IrisInsertValid(cached_row_count, row, count)
       THEN \/ LET t2 == IrisInserted(iris, count)
                   n2 == IrisGetRowCount(t2)
               IN  /\ iris' = t2
                   /\ cached_row_count' = n2
                   /\ Returns(Call(op, arg, 0, count, "", Ascending, TRUE),
                              InsertSignals(row, count, Current,
                                  State(data, t2, n2, df, sort_column, sort_order)))
            \* a statement raises after k rows went in (k = 0: the MAX query
            \* or the first INSERT; k = count: the count query): caught,
            \* endInsertRows, False; the cached count is not reached
            \/ /\ failures < MaxFailures
               /\ \E k \in 0..count :
                    LET t2 == IrisInserted(iris, k)
                    IN  /\ iris' = t2
                        /\ cached_row_count' = cached_row_count
                        /\ Returns(Failed(Call(op, arg, 0, count, "",
                                               Ascending, FALSE)),
                                   InsertSignals(row, count, Current,
                                       State(data, t2, cached_row_count, df,
                                             sort_column, sort_order)))
       ELSE /\ UNCHANGED <<iris, cached_row_count>>
            /\ Returns(Call(op, arg, 0, count, "", Ascending, FALSE), << >>)
    /\ UNCHANGED <<adapter, data, df, sort_column, sort_order>>

IrisInsertRows(row, count) ==
    /\ Ready("iris")
    /\ IrisInsertRowsFrom("insertRows", row, row, count)

\* if row < 0: row = self._cached_row_count
IrisAddTarget(n, row) == IF row < 0 THEN n ELSE row

\* addRow(row): return self.insertRows(row, 1)
IrisAddRow(row) ==
    /\ Ready("iris")
    /\ IrisInsertRowsFrom("addRow", row, IrisAddTarget(cached_row_count, row), 1)

\* addRows(row, count): return self.insertRows(row, count)
IrisAddRows(row, count) ==
    /\ Ready("iris")
    /\ IrisInsertRowsFrom("addRows", row, IrisAddTarget(cached_row_count, row), count)

\* the validation of removeRows, against the cached row count
IrisRemoveValid(crc, row, count) ==
    /\ ~(row < 0 \/ row >= crc)
    /\ ~(count < 1)
    /\ ~(row + count > crc)

\* row_data = self._get_row_by_position(row + i) for i in range(count):
\* the sequences of results the lookups can have
RECURSIVE IrisLookups(_, _, _, _, _)
IrisLookups(t, sc, so, row, count) ==
    IF count <= 0 THEN {<< >>}
    ELSE {s \o <<r>> : s \in IrisLookups(t, sc, so, row, count - 1),
                       r \in IrisGetRowByPosition(t, sc, so, row + count - 1)}

\* ids_to_delete as the list the DELETE loop walks: the ids of the rows the
\* lookups found, in the order of the lookups
IrisIdLists(t, sc, so, row, count) ==
    {[i \in 1..Len(SelectSeq(f, LAMBDA r : r # NoRow)) |->
         SelectSeq(f, LAMBDA r : r # NoRow)[i][1]] :
        f \in IrisLookups(t, sc, so, row, count)}

\* ids_to_delete: one lookup per position row..row+count-1, each keeping
\* the id of the row it found; every outcome the lookups can have
IrisIdsToDelete(t, sc, so, row, count) ==
    {{ids[i] : i \in 1..Len(ids)} : ids \in IrisIdLists(t, sc, so, row, count)}

\* for row_id in ids_to_delete: DELETE FROM iris WHERE id = row_id
IrisDeleted(t, ids) == SelectSeq(t, LAMBDA r : r[1] \notin ids)

IrisRemoveRows(row, count) ==
    /\ Ready("iris")
    /\ IF IrisRemoveValid(cached_row_count, row, count)
       THEN \/ \E ids \in IrisIdsToDelete(iris, sort_column, sort_order, row, count) :
                 LET t2 == IrisDeleted(iris, ids)
                     n2 == IrisGetRowCount(t2)
                 IN  /\ iris' = t2
                     /\ cached_row_count' = n2
                     /\ Returns(Call("removeRows", row, 0, count, "", Ascending, TRUE),
                                RemoveSignals(row, count, Current,
                                    State(data, t2, n2, df, sort_column, sort_order)))
            \* a statement raises after k DELETEs went through (k = 0: a
            \* lookup or the first DELETE; k = len(ids_to_delete): the count
            \* query): caught, endRemoveRows, False; the cached count is not
            \* reached
            \/ /\ failures < MaxFailures
               /\ \E ids \in IrisIdLists(iris, sort_column, sort_order, row, count) :
                  \E k \in 0..Len(ids) :
                    LET t2 == IrisDeleted(iris, {ids[i] : i \in 1..k})
                    IN  /\ iris' = t2
                        /\ cached_row_count' = cached_row_count
                        /\ Returns(Failed(Call("removeRows", row, 0, count, "",
                                               Ascending, FALSE)),
                                   RemoveSignals(row, count, Current,
                                       State(data, t2, cached_row_count, df,
                                             sort_column, sort_order)))
       ELSE /\ UNCHANGED <<iris, cached_row_count>>
            /\ Returns(Call("removeRows", row, 0, count, "", Ascending, FALSE), << >>)
    /\ UNCHANGED <<adapter, data, df, sort_column, sort_order>>

\* IrisTableModel.__init__ on a database file that holds the first rows of
\* the dataset (the state removeRows reaches from the freshly loaded table;
\* an existing file is reused as it is): no sort column, the row count
\* cached.
\* data(index, role) called by the view
IrisReadData(row, column, role) ==
    /\ Ready("iris")
    /\ \E v \in IrisData(iris, cached_row_count, sort_column, sort_order,
                         row, column, role) :
           Returns(Read(Call("data", row, column, 0, "", Ascending, TRUE), role, v),
                   << >>)
    /\ UNCHANGED <<adapter, data, iris, cached_row_count, df, sort_column, sort_order>>

\* name.replace("_", " ").title() for the names of _columns
IrisTitle(name) ==
    CASE name = "sepal_length" -> "Sepal Length"
      [] name = "sepal_width" -> "Sepal Width"
      [] name = "petal_length" -> "Petal Length"
      [] name = "petal_width" -> "Petal Width"
      [] name = "species" -> "Species"

\* headerData(section, orientation, role): None for another role and for a
\* column out of range, the column name in title case, or section + 1 for
\* any section of a row header
IrisHeaderData(crc, section, orientation, role) ==
    IF role # "DisplayRole" THEN None
    ELSE IF orientation = "Horizontal"
    THEN (IF 0 <= section /\ section < Len(IrisColumns)
          THEN S(IrisTitle(IrisColumns[section + 1])) ELSE None)
    ELSE IF orientation = "Vertical" THEN I(section + 1)
    ELSE None

IrisReadHeader(section, orientation, role) ==
    /\ Ready("iris")
    /\ Returns(Read([Call("headerData", section, 0, 0, "", Ascending, TRUE)
                         EXCEPT !.orientation = orientation], role,
                    IrisHeaderData(cached_row_count, section, orientation, role)),
               << >>)
    /\ UNCHANGED <<adapter, data, iris, cached_row_count, df, sort_column, sort_order>>

IrisInit ==
    /\ adapter = "iris"
    /\ data = << >>
    /\ \E n \in InitRowCounts : iris = SubSeq(IrisSeed, 1, n)
    /\ cached_row_count = IrisGetRowCount(iris)
    /\ df = << >>
    /\ sort_column = -1
    /\ sort_order = Ascending

\* the columns written and sorted: two measures and species
IrisEditColumns == {0, 3, 4}

IrisNext ==
    \/ \E a \in SetDataArgs(cached_row_count, IrisEditColumns, Len(IrisColumns)) :
           IrisSetData(a[1], a[2], a[3])
    \/ \E a \in SortArgs(IrisEditColumns, Len(IrisColumns)) : IrisSort(a[1], a[2])
    \/ \E a \in InsertArgs(cached_row_count) : IrisInsertRows(a[1], a[2])
    \/ \E a \in RemoveArgs(cached_row_count) : IrisRemoveRows(a[1], a[2])
    \/ \E a \in DataArgs(cached_row_count, Len(IrisColumns)) :
           IrisReadData(a[1], a[2], a[3])
    \/ \E a \in HeaderArgs(cached_row_count, Len(IrisColumns)) :
           IrisReadHeader(a[1], a[2], a[3])
    \/ \E r \in AddRowArgs(cached_row_count) : IrisAddRow(r)
    \/ \E a \in AddRowsArgs(cached_row_count) : IrisAddRows(a[1], a[2])

-----------------------------------------------------------------------------
(* PostgresTableModel (src/postgresTableModel.py)                          *)
(* The table field_ops.tasks is not part of the repository.  The model     *)
(* loads a frame with one column of each kind setData tells apart (an      *)
(* integer, a float and a text column) and rows that share values.         *)

PgColumns == <<"task_id", "hours", "status">>
PgDtypes == <<"Int64", "Float64", "String">>

PgLoaded ==
    << <<I(3), F(2500), S("open")>>,
       <<I(1), F(1000), S("done")>>,
       <<I(2), F(2500), S("open")>>,
       <<I(4), F(1000), S("open")>>,
       <<I(5), F(7126), S("done")>> >>

\* rowCount() / columnCount() of the data-frame adapter
PgRowCount(f) == Len(f)
PgColumnCount == Len(PgColumns)

\* data(index, role): "" for a null, None for an index out of range or
\* another role
PgData(f, row, column, role) ==
    IF ~(0 <= row /\ row < Len(f) /\ 0 <= column /\ column < Len(PgColumns)) THEN None
    ELSE IF role \in {"DisplayRole", "EditRole"}
    THEN (IF f[row + 1][column + 1] = None THEN S("")
          ELSE S(PyStr(f[row + 1][column + 1])))
    ELSE None

\* A bounds check of setData that lets the row index len(df) through.  C6
\* does not hold of it.
PgSetDataInRangeOffByOne(f, row, column) ==
    (0 <= row /\ row <= Len(f)) /\ (0 <= column /\ column < Len(PgColumns))

\* the bounds check of setData
PgSetDataInRange(f, row, column) ==
    (0 <= row /\ row < Len(f)) /\ (0 <= column /\ column < Len(PgColumns))

\* the conversion of setData by the dtype of the column
PgCoerce(column, value) ==
    IF PgDtypes[column + 1] = "Int64" THEN PyInt(value)
    ELSE IF PgDtypes[column + 1] = "Float64" THEN PyFloat(value)
    ELSE [ok |-> TRUE, v |-> S(value)]

\* self._df[row_idx, col_name] = typed_value
PgAssign(f, row, column, v) ==
    [f EXCEPT ![row + 1] = [@ EXCEPT ![column + 1] = v]]

PgSetData(row, column, value) ==
    /\ Ready("pg")
    /\ LET inRange == PgSetDataInRange(df, row, column)
           hit == inRange /\ PgCoerce(column, value).ok
           f2 == IF hit THEN PgAssign(df, row, column, PgCoerce(column, value).v) ELSE df
       IN  /\ df' = f2
           /\ Returns(Call("setData", row, column, 0, value, Ascending, hit),
                      IF hit
                      THEN << DataChanged(row, column,
                                State(data, iris, cached_row_count, f2,
                                      sort_column, sort_order)) >>
                      ELSE << >>)
    /\ UNCHANGED <<adapter, data, iris, cached_row_count, sort_column, sort_order>>

\* the early return of sort
PgSortAccepts(column) == 0 <= column /\ column < Len(PgColumns)

\* Whether DataFrame.sort puts value a before value b: nulls first, then
\* by value, numbers by size and texts by code point.
PgBefore(a, b, descending) ==
    IF a = None \/ b = None THEN a = None /\ b # None
    ELSE LET ka == IF a.k = "str" THEN TextRank(a.s) ELSE a.n
             kb == IF b.k = "str" THEN TextRank(b.s) ELSE b.n
         IN  IF descending THEN ka > kb ELSE ka < kb

\* self._df.sort(col_name, descending=descending): the frames it can
\* return.  maintain_order is left at its default, so rows equal in the
\* column come in any order.
RECURSIVE PgSortedRows(_, _, _, _)
PgSortedRows(f, idx, column, descending) ==
    IF idx = {} THEN {<< >>}
    ELSE LET first == {i \in idx : \A j \in idx :
                          ~PgBefore(f[j][column + 1], f[i][column + 1], descending)}
             picks == {i \in first : \A j \in first : j < i => f[j] # f[i]}
         IN  UNION {{<<f[i]>> \o s : s \in PgSortedRows(f, idx \ {i}, column, descending)} :
                       i \in picks}

PgSorted(f, column, order) == PgSortedRows(f, 1..Len(f), column, order = Descending)

PgSortSignals(before, after) ==
    << Signal("layoutAboutToBeChanged", -1, -1, before),
       Signal("layoutChanged", -1, -1, after) >>

PgSort(column, order) ==
    /\ Ready("pg")
    /\ IF PgSortAccepts(column)
       THEN \E f2 \in PgSorted(df, column, order) :
                /\ df' = f2
                /\ sort_column' = column
                /\ sort_order' = order
                /\ Returns(Call("sort", 0, column, 0, "", order, TRUE),
                           PgSortSignals(Current,
                               State(data, iris, cached_row_count, f2, column, order)))
       ELSE /\ UNCHANGED <<df, sort_column, sort_order>>
            /\ Returns(Call("sort", 0, column, 0, "", order, FALSE), << >>)
    /\ UNCHANGED <<adapter, data, iris, cached_row_count>>

\* the validation of insertRows
PgInsertValid(f, row, count) == ~(row < 0 \/ row > Len(f) \/ count < 1)

\* [[None] * len(columns) for _ in range(count)]
PgEmptyRows(count) == [i \in 1..count |-> [c \in 1..Len(PgColumns) |-> None]]

\* the three ways the rows are concatenated
PgInserted(f, row, count) ==
    IF row = 0 THEN PgEmptyRows(count) \o f
    ELSE IF row >= Len(f) THEN f \o PgEmptyRows(count)
    ELSE SubSeq(f, 1, row) \o PgEmptyRows(count) \o SubSeq(f, row + 1, Len(f))

\* insertRows(row, count), entered as the call op(arg, ...) of the view
PgInsertRowsFrom(op, arg, row, count) ==
    /\ IF PgInsertValid(df, row, count)
       THEN LET f2 == PgInserted(df, row, count)
            IN  /\ df' = f2
                /\ Returns(Call(op, arg, 0, count, "", Ascending, TRUE),
                           InsertSignals(row, count, Current,
                               State(data, iris, cached_row_count, f2,
                                     sort_column, sort_order)))
       ELSE /\ df' = df
            /\ Returns(Call(op, arg, 0, count, "", Ascending, FALSE), << >>)
    /\ UNCHANGED <<adapter, data, iris, cached_row_count, sort_column, sort_order>>

PgInsertRows(row, count) ==
    /\ Ready("pg")
    /\ PgInsertRowsFrom("insertRows", row, row, count)

\* if row < 0: row = len(self._df)
PgAddTarget(n, row) == IF row < 0 THEN n ELSE row

\* addRow(row): return self.insertRows(row, 1)
PgAddRow(row) ==
    /\ Ready("pg")
    /\ PgInsertRowsFrom("addRow", row, PgAddTarget(Len(df), row), 1)

\* addRows(row, count): return self.insertRows(row, count)
PgAddRows(row, count) ==
    /\ Ready("pg")
    /\ PgInsertRowsFrom("addRows", row, PgAddTarget(Len(df), row), count)

\* the validation of removeRows
PgRemoveValid(f, row, count) ==
    /\ ~(row < 0 \/ row >= Len(f) \/ count < 1)
    /\ ~(row + count > Len(f))

\* indices = list(range(len)); count times indices.pop(row); df[indices]
RECURSIVE PgPopped(_, _, _)
PgPopped(indices, row, count) ==
    IF count = 0 THEN indices
    ELSE PgPopped(ListDelete(indices, row), row, count - 1)

PgRemoved(f, row, count) ==
    LET indices == PgPopped([i \in 1..Len(f) |-> i], row, count)
    IN  [i \in 1..Len(indices) |-> f[indices[i]]] \o << >>

PgRemoveRows(row, count) ==
    /\ Ready("pg")
    /\ IF PgRemoveValid(df, row, count)
       THEN LET f2 == PgRemoved(df, row, count)
            IN  /\ df' = f2
                /\ Returns(Call("removeRows", row, 0, count, "", Ascending, TRUE),
                           RemoveSignals(row, count, Current,
                               State(data, iris, cached_row_count, f2,
                                     sort_column, sort_order)))
       ELSE /\ df' = df
            /\ Returns(Call("removeRows", row, 0, count, "", Ascending, FALSE), << >>)
    /\ UNCHANGED <<adapter, data, iris, cached_row_count, sort_column, sort_order>>

\* PostgresTableModel.__init__: the loaded frame, no sort column.
\* data(index, role) called by the view
PgReadData(row, column, role) ==
    /\ Ready("pg")
    /\ Returns(Read(Call("data", row, column, 0, "", Ascending, TRUE), role,
                    PgData(df, row, column, role)), << >>)
    /\ UNCHANGED <<adapter, data, iris, cached_row_count, df, sort_column, sort_order>>

\* col_name.replace("_", " ").capitalize() for the names of the frame
PgCapitalized(name) ==
    CASE name = "task_id" -> "Task id"
      [] name = "hours" -> "Hours"
      [] name = "status" -> "Status"

\* headerData(section, orientation, role): None for another role and for a
\* column out of range, the column name in sentence case, or section + 1
\* for any section of a row header
PgHeaderData(f, section, orientation, role) ==
    IF role # "DisplayRole" THEN None
    ELSE IF orientation = "Horizontal"
    THEN (IF 0 <= section /\ section < Len(PgColumns)
          THEN S(PgCapitalized(PgColumns[section + 1])) ELSE None)
    ELSE IF orientation = "Vertical" THEN I(section + 1)
    ELSE None

PgReadHeader(section, orientation, role) ==
    /\ Ready("pg")
    /\ Returns(Read([Call("headerData", section, 0, 0, "", Ascending, TRUE)
                         EXCEPT !.orientation = orientation], role,
                    PgHeaderData(df, section, orientation, role)), << >>)
    /\ UNCHANGED <<adapter, data, iris, cached_row_count, df, sort_column, sort_order>>

PgInit ==
    /\ adapter = "pg"
    /\ data = << >>
    /\ iris = << >>
    /\ cached_row_count = 0
    /\ \E n \in InitRowCounts : df = SubSeq(PgLoaded, 1, n)
    /\ sort_column = -1
    /\ sort_order = Ascending

PgEditColumns == 0..(Len(PgColumns) - 1)

PgNext ==
    \/ \E a \in SetDataArgs(Len(df), PgEditColumns, Len(PgColumns)) :
           PgSetData(a[1], a[2], a[3])
    \/ \E a \in SortArgs(PgEditColumns, Len(PgColumns)) : PgSort(a[1], a[2])
    \/ \E a \in InsertArgs(Len(df)) : PgInsertRows(a[1], a[2])
    \/ \E a \in RemoveArgs(Len(df)) : PgRemoveRows(a[1], a[2])
    \/ \E a \in DataArgs(Len(df), Len(PgColumns)) : PgReadData(a[1], a[2], a[3])
    \/ \E a \in HeaderArgs(Len(df), Len(PgColumns)) : PgReadHeader(a[1], a[2], a[3])
    \/ \E r \in AddRowArgs(Len(df)) : PgAddRow(r)
    \/ \E a \in AddRowsArgs(Len(df)) : PgAddRows(a[1], a[2])

-----------------------------------------------------------------------------
(* main.py constructs one of the three models.                             *)

Init ==
    /\ PyInit \/ IrisInit \/ PgInit
    /\ emitted = << >>
    /\ call = NoCall
    /\ prev = NoCall
    /\ pre = Current
    /\ steps = 0
    /\ failures = 0

Next == PyNext \/ IrisNext \/ PgNext

Spec == Init /\ [][Next]_vars

-----------------------------------------------------------------------------
(* The adapter contract, read off a state s of the constructed adapter.    *)

\* rowCount()
RowCount(s) ==
    CASE adapter = "py" -> PyRowCount(s.data)
      [] adapter = "iris" -> IrisRowCount(s.cached_row_count)
      [] OTHER -> PgRowCount(s.df)

\* columnCount()
ColumnCount ==
    CASE adapter = "py" -> PyColumnCount
      [] adapter = "iris" -> IrisColumnCount
      [] OTHER -> PgColumnCount

\* data(index(row, column), role): the results the call can have
Data(s, row, column, role) ==
    CASE adapter = "py" -> {PyData(s.data, row, column, role)}
      [] adapter = "iris" ->
           IrisData(s.iris, s.cached_row_count, s.sort_column, s.sort_order,
                    row, column, role)
      [] OTHER -> {PgData(s.df, row, column, role)}

-----------------------------------------------------------------------------
(* Properties of the contract.  `call` is the last call, `pre` the state   *)
(* it was made in, `emitted` what it emitted, and the unprimed variables   *)
(* the state it left.                                                      *)

Accepted(op) == call.op = op /\ call.ok
Unchanged == Current = pre
Silent == emitted = << >>

\* C1: for every adapter and every sort state, ties in the sort column
\* included, rowCount() after an insertRows(r, n) that returned true is the
\* count before the call plus n, and after a removeRows(r, n) that returned
\* true it is the count before the call minus n.
C1_RowCountAfterInsertAndRemove ==
    /\ Accepted("insertRows") => RowCount(Current) = RowCount(pre) + call.count
    /\ Accepted("removeRows") => RowCount(Current) = RowCount(pre) - call.count

\* C2: an insertRows(p, n) with p < 0, p > rowCount() or n < 1 and a
\* removeRows(p, n) with p < 0, p >= rowCount(), n < 1 or p + n > rowCount()
\* return false, emit nothing and leave the row count, the rows and the sort
\* state as they were; insertRows at p = rowCount() is accepted (it returns
\* true unless the database fails in it), removeRows at p = rowCount() is
\* rejected.
C2_RejectedStructuralCalls ==
    /\ (/\ call.op = "insertRows"
        /\ (call.row < 0 \/ call.row > RowCount(pre) \/ call.count < 1))
       => ~call.ok /\ Silent /\ Unchanged /\ RowCount(Current) = RowCount(pre)
    /\ (/\ call.op = "removeRows"
        /\ (\/ call.row < 0 \/ call.row >= RowCount(pre) \/ call.count < 1
            \/ call.row + call.count > RowCount(pre)))
       => ~call.ok /\ Silent /\ Unchanged /\ RowCount(Current) = RowCount(pre)
    /\ (call.op = "insertRows" /\ call.row = RowCount(pre) /\ call.count >= 1)
       => call.ok \/ call.failed
    /\ (call.op = "removeRows" /\ call.row = RowCount(pre)) => ~call.ok

\* A removeRows whose range runs past the last row was rejected while a sort
\* was active and rows were there to lose.
C2_Witness ==
    /\ call.op = "removeRows"
    /\ ~call.ok
    /\ 0 <= call.row /\ call.row < RowCount(pre)
    /\ call.row + call.count > RowCount(pre)
    /\ pre.sort_column >= 0
    /\ RowCount(Current) >= 2

\* The value setData stores for the text the editor hands it, and the text
\* data() shows for a stored value, of the constructed adapter.
Coerced(column, value) ==
    CASE adapter = "py" -> PyCoerce(column, value).v
      [] adapter = "iris" -> IrisCoerce(column, value).v
      [] OTHER -> PgCoerce(column, value).v

DisplayText(v) ==
    CASE adapter = "iris" -> IrisText(v)
      [] OTHER -> PyStr(v)

\* C3: in every reachable state and for every adapter, the embedded-database
\* adapter with a sort on column c included: when setData(r, c, v) returned
\* true, data(r, c, DisplayRole) read right after it is the text of v
\* coerced to the type of the column.
C3_WriteThenRead ==
    Accepted("setData") =>
        \A x \in Data(Current, call.row, call.column, "DisplayRole") :
            x = S(DisplayText(Coerced(call.column, call.value)))

\* The rows of the embedded-database adapter one lookup per position
\* p..p+n-1 can find when the lookups agree on one order: n different rows,
\* the i-th of them one that the sort order allows at position p + i.
IrisRowsAtPositions(s, p, n) ==
    {f \in [0..(n - 1) -> {s.iris[i] : i \in 1..Len(s.iris)}] :
        /\ \A i \in 0..(n - 1) :
               f[i] \in IrisRowsAt(s.iris, s.sort_column, s.sort_order, p + i)
        /\ \A i, j \in 0..(n - 1) : i # j => f[i] # f[j]}

\* C4: a removeRows(p, n) that returned true deleted exactly the n rows at
\* positions p..p+n-1 of the order current when it was called, and every
\* other row is still there, unaltered and in the same relative order.
C4_RemovedRowsAreThoseAtThePositions ==
    Accepted("removeRows") =>
        CASE adapter = "py" ->
               data = SubSeq(pre.data, 1, call.row)
                      \o SubSeq(pre.data, call.row + call.count + 1, Len(pre.data))
          [] adapter = "pg" ->
               df = SubSeq(pre.df, 1, call.row)
                    \o SubSeq(pre.df, call.row + call.count + 1, Len(pre.df))
          [] OTHER ->
               \E f \in IrisRowsAtPositions(pre, call.row, call.count) :
                   iris = SelectSeq(pre.iris,
                              LAMBDA r : \A i \in 0..(call.count - 1) : r # f[i])

\* The type setData converts to for a column of the constructed adapter,
\* and whether Python converts a text of RawValues to it.
ColumnType(column) ==
    CASE adapter = "py" ->
           (IF column = 1 THEN "int" ELSE IF column = 3 THEN "float" ELSE "str")
      [] adapter = "iris" -> (IF column < 4 THEN "float" ELSE "str")
      [] OTHER ->
           (IF PgDtypes[column + 1] = "Int64" THEN "int"
            ELSE IF PgDtypes[column + 1] = "Float64" THEN "float" ELSE "str")

Converts(type, value) ==
    CASE type = "int" -> value = "30"
      [] type = "float" -> value \in {"30", "7.126"}
      [] OTHER -> TRUE

InRange(row, column) ==
    /\ 0 <= row /\ row < RowCount(pre)
    /\ 0 <= column /\ column < ColumnCount

\* The lookup of the embedded-database adapter finds a row at the position
\* (it finds none where a failed removeRows left the cached count above the
\* number of rows).
RowStored(row) == adapter = "iris" => row < Len(pre.iris)

\* C5: a setData on a cell in range whose value cannot be converted to the
\* numeric type of the column returns false, emits nothing, raises nothing
\* and leaves every cell as it was; a setData on a cell of a text column is
\* never rejected for its value: it returns true where the row is stored
\* and the database does not fail.
C5_UncoercibleWriteRejected ==
    (call.op = "setData" /\ InRange(call.row, call.column)) =>
        /\ ~Converts(ColumnType(call.column), call.value)
           => ~call.ok /\ ~call.raised /\ Silent /\ Unchanged
        /\ (ColumnType(call.column) = "str" /\ RowStored(call.row))
           => call.ok \/ call.failed

\* "thirty" was written to the last numeric column of the embedded-database
\* adapter while a sort was active, and was refused.
C5_Witness ==
    /\ adapter = "iris"
    /\ call.op = "setData"
    /\ call.column = 3
    /\ call.value = "thirty"
    /\ InRange(call.row, call.column)
    /\ pre.sort_column >= 0
    /\ ~call.ok

\* C6: a setData with a row outside [0, rowCount()) or a column outside
\* [0, columnCount()) returns false, emits nothing and changes no row, in
\* every reachable state.
C6_OutOfRangeWriteRejected ==
    (call.op = "setData" /\ ~InRange(call.row, call.column))
    => ~call.ok /\ Silent /\ Unchanged

\* A removeRows made the table shorter, and the next setData addressed the
\* first row index that it made invalid.
C6_Witness ==
    /\ prev.op = "removeRows"
    /\ prev.ok
    /\ call.op = "setData"
    /\ call.row = RowCount(pre)
    /\ RowCount(pre) >= 1
    /\ 0 <= call.column /\ call.column < ColumnCount
    /\ ~call.ok

\* sort(c, ascending) was accepted and the next call was an accepted
\* insertRows(rowCount(), 1).
AppendedAfterSort ==
    /\ prev.op = "sort"
    /\ prev.ok
    /\ prev.order = Ascending
    /\ Accepted("insertRows")
    /\ call.row = RowCount(pre)
    /\ call.count = 1

\* Column c of state s does not decrease over positions 0..rowCount()-1, in
\* the order sort(c, ...) of the adapter sorts by, whatever rows the lookups
\* of the embedded-database adapter find.
NonDecreasing(s, c) ==
    CASE adapter = "py" ->
           \A i, j \in 1..Len(s.data) :
               i < j => PySortKeys(s.data, c)[i] <= PySortKeys(s.data, c)[j]
      [] adapter = "iris" ->
           \A p, q \in 0..(s.cached_row_count - 1) :
               p < q =>
                 \A a \in IrisRowsAt(s.iris, s.sort_column, s.sort_order, p) :
                   \A b \in IrisRowsAt(s.iris, s.sort_column, s.sort_order, q) :
                     IrisOrderKey(a, c) <= IrisOrderKey(b, c)
      [] OTHER ->
           \A i, j \in 1..Len(s.df) :
               i < j => ~PgBefore(s.df[j][c + 1], s.df[i][c + 1], FALSE)

\* C7 as the specification states it: for each adapter, after
\* sort(c, ascending) and then insertRows(rowCount(), 1), column c read over
\* positions 0..rowCount()-1 is still non-decreasing.
C7_SortedAfterAppend_AsStated ==
    AppendedAfterSort => NonDecreasing(Current, prev.column)

\* C7 as the code has it: after sort(c, ascending) and then
\* insertRows(rowCount(), 1), the embedded-database adapter reads column c
\* non-decreasing over the positions; the list-backed and the data-frame
\* adapter leave every row at its position and put the new row last,
\* whatever its value in column c.
C7_SortedAfterAppend ==
    AppendedAfterSort =>
        CASE adapter = "iris" ->
               /\ sort_column = prev.column
               /\ NonDecreasing(Current, prev.column)
          [] adapter = "py" -> data = pre.data \o << PyDefaultRow(pre.data) >>
          [] OTHER -> df = pre.df \o PgEmptyRows(1)

\* The embedded-database adapter was sorted and then appended to, and the
\* new row is read at the first position, before the rows that were there.
C7_Witness ==
    /\ AppendedAfterSort
    /\ adapter = "iris"
    /\ RowCount(Current) >= 2
    /\ \A r \in IrisRowsAt(iris, sort_column, sort_order, 0) :
           r[1] = I(IrisNextId(pre.iris))

\* sort(c, d) was accepted twice in a row.
SortedTwice ==
    /\ prev.op = "sort"
    /\ prev.ok
    /\ Accepted("sort")
    /\ call.column = prev.column
    /\ call.order = prev.order

C10_SortOutOfRangeIgnored ==
    (call.op = "sort" /\ (call.column < 0 \/ call.column >= ColumnCount))
    => ~call.ok /\ ~call.raised /\ Silent /\ Unchanged

\* A sort by the column just past the last one was ignored while another
\* sort was active.
C10_Witness ==
    /\ call.op = "sort"
    /\ call.column = ColumnCount
    /\ pre.sort_column >= 0
    /\ RowCount(pre) >= 2
    /\ ~call.ok

\* The rows a read of position q can find in state s of the constructed
\* adapter: the q-th element of the list or frame, or what the lookup of
\* the embedded-database adapter can return.
RowsAtPosition(s, q) ==
    CASE adapter = "py" -> IF q < Len(s.data) THEN {s.data[q + 1]} ELSE {}
      [] adapter = "iris" -> IrisRowsAt(s.iris, s.sort_column, s.sort_order, q)
      [] OTHER -> IF q < Len(s.df) THEN {s.df[q + 1]} ELSE {}

\* The row is one that insertRows makes: the default values of the adapter
\* (the list-backed adapter numbers the name, the embedded-database adapter
\* the id).
IsDefaultRow(r) ==
    CASE adapter = "py" -> SubSeq(r, 2, 5) = SubSeq(PyDefaultRow(<< >>), 2, 5)
      [] adapter = "iris" -> SubSeq(r, 2, 6) = SubSeq(IrisDefaultRow(0), 2, 6)
      [] OTHER -> r = PgEmptyRows(1)[1]

\* C11: an insertRows(p, n) that returned true emitted "about to insert"
\* and then "inserted" for the range [p, p+n-1]; after it the n new default
\* rows are at the positions p..p+n-1, the rows that were at positions below
\* p are where they were, and the rows that were at p or above are n
\* positions further down, for every adapter and under every sort state.
C11_InsertedRowsAtThePositions ==
    Accepted("insertRows") =>
        /\ emitted = InsertSignals(call.row, call.count, pre, Current)
        /\ \A q \in 0..(call.row - 1) :
               RowsAtPosition(Current, q) = RowsAtPosition(pre, q)
        /\ \A q \in call.row..(call.row + call.count - 1) :
               /\ RowsAtPosition(Current, q) # {}
               /\ \A r \in RowsAtPosition(Current, q) : IsDefaultRow(r)
        /\ \A q \in call.row..(RowCount(pre) - 1) :
               RowsAtPosition(Current, q + call.count) = RowsAtPosition(pre, q)

\* C11, for the two adapters that keep their rows in the order shown.
C11_ListAndFrame ==
    adapter # "iris" => C11_InsertedRowsAtThePositions

\* C11, for the embedded-database adapter while no sort is active and no
\* statement has failed: the new rows are the last ones.
C11_IrisAppends ==
    (adapter = "iris" /\ Accepted("insertRows") /\ sort_column < 0 /\ failures = 0) =>
        /\ emitted = InsertSignals(call.row, call.count, pre, Current)
        /\ iris = pre.iris \o SubSeq(iris, Len(pre.iris) + 1, Len(iris))
        /\ Len(iris) = Len(pre.iris) + call.count
        /\ \A q \in Len(pre.iris)..(Len(iris) - 1) :
               \A r \in RowsAtPosition(Current, q) : IsDefaultRow(r)

\* The last call was an accepted insertRows or removeRows of the
\* embedded-database adapter in which a statement raised.
FailedStructuralCall ==
    call.failed /\ call.op \in {"insertRows", "removeRows"}

\* C12: when the database fails inside an accepted insertRows or removeRows
\* of the embedded-database adapter, also after some but not all rows were
\* written or deleted, the call returns false, the closing notification is
\* emitted once after the opening one, and the stored rows and rowCount()
\* are what they were before the call.
C12_FailedCallLeavesNoTrace ==
    FailedStructuralCall =>
        /\ ~call.ok
        /\ Len(emitted) = 2
        /\ emitted[1].sig \in {"rowsAboutToBeInserted", "rowsAboutToBeRemoved"}
        /\ emitted[2].sig \in {"rowsInserted", "rowsRemoved"}
        /\ iris = pre.iris
        /\ RowCount(Current) = RowCount(pre)
        /\ RowCount(Current) = IrisGetRowCount(iris)

\* C12, the part the handler does keep: false is returned and the two
\* notifications are emitted, once each and in order.
C12_FailedCallReturnsFalse ==
    FailedStructuralCall =>
        /\ ~call.ok
        /\ Len(emitted) = 2
        /\ emitted[1].sig \in {"rowsAboutToBeInserted", "rowsAboutToBeRemoved"}
        /\ emitted[2].sig \in {"rowsInserted", "rowsRemoved"}
        /\ RowCount(Current) = RowCount(pre)

\* C12, its last part: a removeRows made after a failed call, with no sort
\* active, that returns true has removed the rows it was asked to.
C12_CallsAfterAFailure ==
    (prev.failed /\ Accepted("removeRows") /\ pre.sort_column < 0) =>
        Len(iris) = Len(pre.iris) - call.count

\* The number of rows the store of the constructed adapter holds.
StoredRows(s) ==
    CASE adapter = "py" -> Len(s.data)
      [] adapter = "iris" -> IrisGetRowCount(s.iris)
      [] OTHER -> Len(s.df)

\* C13: after every sequence of insertRows, removeRows, setData and sort,
\* whether they returned true, were rejected or failed, rowCount() is the
\* number of rows stored: the cached count of the embedded-database adapter
\* is the count of its table.
C13_RowCountNeverStale ==
    RowCount(Current) = StoredRows(Current)

\* C13, while no statement sent to the database has failed.
C13_RowCountWithoutFailures ==
    failures = 0 => RowCount(Current) = StoredRows(Current)

-----------------------------------------------------------------------------
(* The list-backed and the embedded-database adapter side by side: one     *)
(* PythonTableModel (its list in `data`) and one IrisTableModel (its table *)
(* in `iris`) receive the same calls.  The two keep different columns;     *)
(* columns 3 and 4 hold a float and a text in both (Score and Status,      *)
(* petal_width and species), so the calls sort and write these two.  Both  *)
(* store the same _sort_column and _sort_order, held once.  No statement   *)
(* fails here.                                                             *)

SharedColumns == {3, 4}

\* The values columns 3 and 4 hold when the calls begin: written by
\* setData("30") / setData("7.126") on column 3 and by setData on column 4.
WrittenCells ==
    { <<F(30000), S("30")>>, <<F(7126), S("thirty")>>, <<F(7126), S("7.126")>> }

BothInit ==
    /\ adapter = "both"
    /\ \E n \in {k \in InitRowCounts : k <= Len(IrisSeed)} :
       \E w \in [1..n -> WrittenCells] :
           /\ data = [i \in 1..n |-> [SeedData[i] EXCEPT ![4] = w[i][1], ![5] = w[i][2]]]
                     \o << >>
           /\ iris = [i \in 1..n |-> [IrisSeed[i] EXCEPT ![5] = w[i][1], ![6] = w[i][2]]]
                     \o << >>
    /\ cached_row_count = IrisGetRowCount(iris)
    /\ df = << >>
    /\ sort_column = -1
    /\ sort_order = Ascending
    /\ emitted = << >>
    /\ call = NoCall
    /\ prev = NoCall
    /\ pre = Current
    /\ steps = 0
    /\ failures = 0

\* sort(column, order) on both
BothSort(column, order) ==
    /\ Ready("both")
    /\ IF PySortAccepts(column) /\ IrisSortAccepts(column)
       THEN LET d2 == PySorted(data, column, order)
                s == IrisSortState(column, order)
                after == State(d2, iris, cached_row_count, df, s[1], s[2])
            IN  /\ data' = d2
                /\ sort_column' = s[1]
                /\ sort_order' = s[2]
                /\ Returns(Call("sort", 0, column, 0, "", order, TRUE),
                           PySortSignals(Current, after)
                           \o IrisSortSignals(Current, after))
       ELSE /\ UNCHANGED <<data, sort_column, sort_order>>
            /\ Returns(Call("sort", 0, column, 0, "", order, FALSE), << >>)
    /\ UNCHANGED <<adapter, iris, cached_row_count, df>>

\* setData(index(row, column), value) on both; ok is what the list-backed
\* adapter returned
BothSetData(row, column, value) ==
    /\ Ready("both")
    /\ LET c == PyCoerce(column, value)
           hit == PySetDataInRange(data, row, column) /\ c.ok
           d2 == IF hit THEN PyAssign(data, row, column, c.v) ELSE data
       IN  /\ data' = d2
           /\ IF IrisSetDataInRange(cached_row_count, row, column)
              THEN \E rd \in IrisGetRowByPosition(iris, sort_column, sort_order, row) :
                     LET ci == IrisCoerce(column, value)
                         hiti == rd # NoRow /\ ci.ok
                         t2 == IF hiti THEN IrisUpdate(iris, column, ci.v, rd[1])
                               ELSE iris
                         after == State(d2, t2, cached_row_count, df,
                                        sort_column, sort_order)
                     IN  /\ iris' = t2
                         /\ Returns(Call("setData", row, column, 0, value,
                                         Ascending, hit),
                                    (IF hit THEN << DataChanged(row, column, after) >>
                                     ELSE << >>)
                                    \o (IF hiti
                                        THEN << DataChanged(row, column, after) >>
                                        ELSE << >>))
              ELSE /\ iris' = iris
                   /\ Returns(Call("setData", row, column, 0, value, Ascending, hit),
                              IF hit
                              THEN << DataChanged(row, column,
                                        State(d2, iris, cached_row_count, df,
                                              sort_column, sort_order)) >>
                              ELSE << >>)
    /\ UNCHANGED <<adapter, cached_row_count, df, sort_column, sort_order>>

\* insertRows(row, count) on both
BothInsertRows(row, count) ==
    /\ Ready("both")
    /\ LET okp == PyInsertValid(data, row, count)
           oki == IrisInsertValid(cached_row_count, row, count)
           d2 == IF okp THEN PyInsertLoop(data, row, 0, count) ELSE data
           t2 == IF oki THEN IrisInserted(iris, count) ELSE iris
           n2 == IF oki THEN IrisGetRowCount(t2) ELSE cached_row_count
           after == State(d2, t2, n2, df, sort_column, sort_order)
       IN  /\ data' = d2
           /\ iris' = t2
           /\ cached_row_count' = n2
           /\ Returns(Call("insertRows", row, 0, count, "", Ascending, okp),
                      (IF okp THEN InsertSignals(row, count, Current, after)
                       ELSE << >>)
                      \o (IF oki THEN InsertSignals(row, count, Current, after)
                          ELSE << >>))
    /\ UNCHANGED <<adapter, df, sort_column, sort_order>>

\* removeRows(row, count) on both
BothRemoveRows(row, count) ==
    /\ Ready("both")
    /\ LET okp == PyRemoveValid(data, row, count)
           oki == IrisRemoveValid(cached_row_count, row, count)
           d2 == IF okp THEN PyRemoveLoop(data, row, 0, count) ELSE data
       IN  /\ data' = d2
           /\ \E ids \in (IF oki
                          THEN IrisIdsToDelete(iris, sort_column, sort_order, row, count)
                          ELSE {{}}) :
                LET t2 == IF oki THEN IrisDeleted(iris, ids) ELSE iris
                    n2 == IF oki THEN IrisGetRowCount(t2) ELSE cached_row_count
                    after == State(d2, t2, n2, df, sort_column, sort_order)
                IN  /\ iris' = t2
                    /\ cached_row_count' = n2
                    /\ Returns(Call("removeRows", row, 0, count, "", Ascending, okp),
                               (IF okp THEN RemoveSignals(row, count, Current, after)
                                ELSE << >>)
                               \o (IF oki
                                   THEN RemoveSignals(row, count, Current, after)
                                   ELSE << >>))
    /\ UNCHANGED <<adapter, df, sort_column, sort_order>>

BothNext ==
    \/ \E a \in ({r \in {0, Len(data) - 1} : 0 <= r} \X SharedColumns \X RawValues)
                \cup {<<Len(data), 4, "30">>} :
           BothSetData(a[1], a[2], a[3])
    \/ \E a \in (SharedColumns \X SortOrders) \cup {<<-1, Ascending>>} :
           BothSort(a[1], a[2])
    \/ \E a \in InsertArgs(Len(data)) : BothInsertRows(a[1], a[2])
    \/ \E a \in RemoveArgs(Len(data)) : BothRemoveRows(a[1], a[2])

BothSpec == BothInit /\ [][BothNext]_vars

\* What the two adapters are compared on: the cells of columns 3 and 4 of a
\* row, the value insertRows gives a new row read as the one word "default"
\* in either (0.0 and "Active" in the list, 1.0 and "setosa" in the table:
\* both sort below the written floats and between the written texts).
SharedCells(v3, v4, d3, d4) ==
    << IF v3 = d3 THEN S("default") ELSE v3, IF v4 = d4 THEN S("default") ELSE v4 >>

PyShownAt(s, q) ==
    IF q < Len(s.data)
    THEN {SharedCells(s.data[q + 1][4], s.data[q + 1][5],
                      PyDefaultRow(<< >>)[4], PyDefaultRow(<< >>)[5])}
    ELSE {}

IrisShownAt(s, q) ==
    {SharedCells(r[5], r[6], IrisDefaultRow(0)[5], IrisDefaultRow(0)[6]) :
        r \in IrisRowsAt(s.iris, s.sort_column, s.sort_order, q)}

\* C14: the list-backed and the embedded-database adapter, started from the
\* same rows and given the same sequence of sort, setData, insertRows and
\* removeRows calls, have the same number of rows and show the same row at
\* every position after every call.
C14_SameRowAtEveryPosition ==
    /\ PyRowCount(data) = IrisRowCount(cached_row_count)
    /\ \A q \in 0..(PyRowCount(data) - 1) :
           IrisShownAt(Current, q) = PyShownAt(Current, q)

\* C14, for calls made before any sort was accepted that are not an
\* insertRows above the last position.
C14_SameRowsWhileUnsortedAndAppending ==
    (sort_column < 0 /\ ~(call.op = "insertRows" /\ call.row < PyRowCount(pre.data))
     /\ ~(prev.op = "insertRows"))
        => C14_SameRowAtEveryPosition

\* The rows new are the rows old but for column j of row i (both 1-based),
\* which holds v.
OnlyCellWritten(old, new, i, j, v) ==
    /\ Len(new) = Len(old)
    /\ i \in 1..Len(old)
    /\ new[i][j] = v
    /\ \A a \in 1..Len(old) : \A b \in 1..Len(old[a]) :
           (a # i \/ b # j) => new[a][b] = old[a][b]

\* C15: a setData(r, c, v) that returned true emitted one change
\* notification, for the cell (r, c) and no other, and wrote one cell:
\* column c of the row that was at position r when it was called (for the
\* embedded-database adapter: of a row its lookup finds at r).  Every other
\* cell, the row count, the column count and the sort state are as before.
C15_SetDataWritesOneCell ==
    Accepted("setData") =>
        /\ emitted = << DataChanged(call.row, call.column, Current) >>
        /\ RowCount(Current) = RowCount(pre)
        /\ sort_column = pre.sort_column /\ sort_order = pre.sort_order
        /\ CASE adapter = "py" ->
                  /\ OnlyCellWritten(pre.data, data, call.row + 1, call.column + 1,
                                     Coerced(call.column, call.value))
                  /\ iris = pre.iris /\ df = pre.df
             [] adapter = "pg" ->
                  /\ OnlyCellWritten(pre.df, df, call.row + 1, call.column + 1,
                                     Coerced(call.column, call.value))
                  /\ iris = pre.iris /\ data = pre.data
             [] OTHER ->
                  /\ \E i \in 1..Len(pre.iris) :
                        /\ pre.iris[i] \in RowsAtPosition(pre, call.row)
                        /\ OnlyCellWritten(pre.iris, iris, i, call.column + 2,
                                           Coerced(call.column, call.value))
                  /\ data = pre.data /\ df = pre.df

\* The embedded-database adapter wrote a new value into the column it is
\* sorted by, in a table of two rows or more, so that the row written is no
\* longer read at the position it was written at.
C15_Witness ==
    /\ adapter = "iris"
    /\ Accepted("setData")
    /\ call.column = pre.sort_column
    /\ Len(iris) >= 2
    /\ iris # pre.iris
    /\ RowsAtPosition(Current, call.row) \cap RowsAtPosition(pre, call.row) = {}

\* The last call asked for the label of the row header of a section.
RowHeaderRead ==
    call.op = "headerData" /\ call.orientation = "Vertical" /\ call.role = "DisplayRole"

\* C16: for row headers headerData returns section + 1 (the number or its
\* text) for a section in [0, rowCount()), and returns the empty text or
\* nothing, without raising, for a section outside that range (negative, or
\* rowCount() and above, such as the row just removed), in every adapter.
C16_RowHeaderOutOfRange ==
    RowHeaderRead =>
        /\ ~call.raised
        /\ IF 0 <= call.row /\ call.row < RowCount(pre)
           THEN call.result \in {I(call.row + 1), S(PyStr(I(call.row + 1)))}
           ELSE call.result \in {None, S("")}

\* C16, for the sections in range of every adapter and all sections of the
\* list-backed adapter.
C16_RowHeaderInRange ==
    (RowHeaderRead /\ (adapter = "py" \/ (0 <= call.row /\ call.row < RowCount(pre)))) =>
        /\ ~call.raised
        /\ IF 0 <= call.row /\ call.row < RowCount(pre)
           THEN call.result \in {I(call.row + 1), S(PyStr(I(call.row + 1)))}
           ELSE call.result \in {None, S("")}

\* C17: data(index(r, c), role) returns nothing, without raising, when r or
\* c is out of range or the role is neither the display nor the edit role;
\* for a cell in range the display and the edit role give the same text;
\* and the call changes no row, no count and no sort state.
C17_DataReadsWithoutEffect ==
    call.op = "data" =>
        /\ ~call.raised
        /\ Unchanged
        /\ Silent
        /\ call.result \in Data(pre, call.row, call.column, call.role)
        /\ (~InRange(call.row, call.column)
            \/ call.role \notin {"DisplayRole", "EditRole"}) => call.result = None
        /\ InRange(call.row, call.column) =>
             /\ Data(pre, call.row, call.column, "DisplayRole")
                  = Data(pre, call.row, call.column, "EditRole")
             /\ (call.role \in {"DisplayRole", "EditRole"} /\ RowStored(call.row))
                  => call.result # None

\* The position of the row that the call before removed was read: it is
\* now one past the last row.
C17_Witness ==
    /\ call.op = "data"
    /\ prev.op = "removeRows" /\ prev.ok
    /\ call.row = RowCount(pre)
    /\ RowCount(pre) >= 1
    /\ call.result = None

\* The sequence new holds the rows of the sequence old, each as often as
\* old holds it.
IsPermutation(old, new) ==
    /\ Len(new) = Len(old)
    /\ \A i \in 1..Len(old) :
           Cardinality({j \in 1..Len(new) : new[j] = old[i]})
           = Cardinality({j \in 1..Len(old) : old[j] = old[i]})

\* The value a row of the constructed adapter is ordered by under a sort on
\* the column: the number on a numeric column, the place of its text among
\* all texts on others; None for a null of the frame.
OrderedBy(r, column) ==
    CASE adapter = "py" ->
           (IF column \in {1, 3} THEN I(FloatOf(r[column + 1]))
            ELSE I(TextRank(PyStr(r[column + 1]))))
      [] adapter = "iris" ->
           (IF column < 4 THEN I(r[column + 2].n) ELSE I(TextRank(r[column + 2].s)))
      [] OTHER ->
           (IF r[column + 1] = None THEN None
            ELSE IF PgDtypes[column + 1] = "String" THEN I(TextRank(r[column + 1].s))
            ELSE I(r[column + 1].n))

\* Row a may stand before row b under sort(column, order); a null of the
\* frame has no order.
InOrder(a, b, column, order) ==
    LET ka == OrderedBy(a, column)
        kb == OrderedBy(b, column)
    IN  \/ ka = None \/ kb = None
        \/ IF order = Descending THEN ka.n >= kb.n ELSE ka.n <= kb.n

\* The rows that reads of positions 0..n-1 of state s can show, one
\* sequence for each outcome of the lookups.
ShownRows(s) ==
    CASE adapter = "py" -> {s.data}
      [] adapter = "iris" ->
           {f \in [1..s.cached_row_count -> {s.iris[i] : i \in 1..Len(s.iris)} \cup {NoRow}] :
               \A q \in 1..s.cached_row_count :
                   f[q] \in IrisGetRowByPosition(s.iris, s.sort_column, s.sort_order, q - 1)}
      [] OTHER -> {s.df}

\* The rows the store of state s holds.
StoredSeq(s) ==
    CASE adapter = "py" -> s.data
      [] adapter = "iris" -> s.iris
      [] OTHER -> s.df

\* C18: after a sort(c, d) that was accepted, the rows at positions
\* 0..rowCount()-1 are a permutation of the rows before it (none added,
\* lost, duplicated or altered), in non-decreasing order of column c for
\* ascending and non-increasing order for descending, by number on numeric
\* columns and by text on the others.
C18_SortedPermutation ==
    Accepted("sort") =>
        \A shown \in ShownRows(Current) :
            /\ IsPermutation(StoredSeq(pre), shown)
            /\ \A i, j \in 1..Len(shown) :
                   i < j => InOrder(shown[i], shown[j], call.column, call.order)

\* No two rows of the table of the embedded-database adapter are equal in
\* the column, and its cached count is the count of the table.
IrisOrderIsTotal(s, column) ==
    adapter = "iris" =>
        /\ s.cached_row_count = Len(s.iris)
        /\ \A i, j \in 1..Len(s.iris) :
               i # j => OrderedBy(s.iris[i], column) # OrderedBy(s.iris[j], column)

\* C18, where the sort column orders the rows of the embedded-database
\* adapter totally; the list-backed and the data-frame adapter in every
\* state.
C18_SortedPermutationWithoutTies ==
    (Accepted("sort") /\ IrisOrderIsTotal(pre, call.column)) => C18_SortedPermutation

\* The position addRow(row) and addRows(row, count) are to insert at: the
\* end for every negative row.
AddTarget == IF call.row < 0 THEN RowCount(pre) ELSE call.row

\* What insertRows(row, count) called in state s can return and leave
\* behind: <<returned, a statement failed, the state after>>.
InsertRowsResults(s, row, count) ==
    CASE adapter = "py" ->
           IF PyInsertValid(s.data, row, count)
           THEN {<<TRUE, FALSE, [s EXCEPT !.data = PyInsertLoop(s.data, row, 0, count)]>>}
           ELSE {<<FALSE, FALSE, s>>}
      [] adapter = "iris" ->
           IF IrisInsertValid(s.cached_row_count, row, count)
           THEN {<<TRUE, FALSE,
                   [s EXCEPT !.iris = IrisInserted(s.iris, count),
                             !.cached_row_count =
                                 IrisGetRowCount(IrisInserted(s.iris, count))]>>}
                \cup {<<FALSE, TRUE, [s EXCEPT !.iris = IrisInserted(s.iris, k)]>> :
                         k \in 0..count}
           ELSE {<<FALSE, FALSE, s>>}
      [] OTHER ->
           IF PgInsertValid(s.df, row, count)
           THEN {<<TRUE, FALSE, [s EXCEPT !.df = PgInserted(s.df, row, count)]>>}
           ELSE {<<FALSE, FALSE, s>>}

\* The last call did what insertRows(row, count) does in the state it was
\* made in: its return value, its notifications and the state it left.
AsInsertRows(row, count) ==
    /\ <<call.ok, call.failed, Current>> \in InsertRowsResults(pre, row, count)
    /\ emitted = IF call.ok \/ call.failed
                 THEN InsertSignals(row, count, pre, Current) ELSE << >>

\* C19: addRow(row) and addRows(row, count) with a negative row return,
\* emit and leave what insertRows(rowCount(), 1) and
\* insertRows(rowCount(), count) do; with row >= 0 what insertRows(row, 1)
\* and insertRows(row, count) do, false and no change for row > rowCount()
\* or count < 1 included.  (insertRows itself is held to the same
\* description of its outcomes.)
C19_AddRowsIsInsertRows ==
    /\ call.op = "insertRows" => AsInsertRows(call.row, call.count)
    /\ call.op = "addRow" => call.count = 1 /\ AsInsertRows(AddTarget, 1)
    /\ call.op = "addRows" => AsInsertRows(AddTarget, call.count)
    /\ (call.op \in {"addRow", "addRows"}
        /\ (call.row > RowCount(pre) \/ call.count < 1))
           => ~call.ok /\ Silent /\ Unchanged
    /\ (call.op \in {"addRow", "addRows"} /\ call.row < 0 /\ call.count >= 1)
           => /\ call.ok \/ call.failed
              /\ emitted[1].first = RowCount(pre)
              /\ emitted[1].last = RowCount(pre) + call.count - 1

\* addRows(-1, n) with n >= 2 returned true on a list that holds rows and
\* was sorted before: the rows went to the end.
C19_Witness ==
    /\ adapter = "py"
    /\ call.op = "addRows" /\ call.ok
    /\ call.row < 0 /\ call.count >= 2
    /\ prev.op = "sort" /\ prev.ok
    /\ Len(pre.data) >= 2
    /\ SubSeq(data, 1, Len(pre.data)) = pre.data
    /\ Len(data) = Len(pre.data) + call.count

\* C20: in the embedded-database adapter, under every sort state, columns
\* with equal values included, a position resolves to one row and to the
\* same row for every lookup made while nothing is changed, and the
\* positions 0..rowCount()-1 resolve to rows of pairwise different ids that
\* are all the rows stored.
C20_PositionsResolveToDistinctRows ==
    adapter = "iris" =>
        /\ \A q \in 0..(IrisRowCount(cached_row_count) - 1) :
               /\ Cardinality(IrisGetRowByPosition(iris, sort_column, sort_order, q)) = 1
               /\ NoRow \notin IrisGetRowByPosition(iris, sort_column, sort_order, q)
        /\ \A shown \in ShownRows(Current) :
               /\ \A i, j \in 1..Len(shown) : i # j => shown[i][1] # shown[j][1]
               /\ {shown[i] : i \in 1..Len(shown)} = {iris[i] : i \in 1..Len(iris)}

\* C20, while no sort is active or the sort column orders the rows totally,
\* and the cached count is the count of the table.
C20_DistinctRowsWithoutTies ==
    (/\ adapter = "iris"
     /\ cached_row_count = Len(iris)
     /\ sort_column >= 0 => IrisOrderIsTotal(Current, sort_column))
        => C20_PositionsResolveToDistinctRows

\* The identifiers of the rows of table t, in the order of the table.
Ids(t) == [i \in 1..Len(t) |-> t[i][1].n]

\* The last call went through insertRows of the embedded-database adapter.
IrisInsertCall ==
    adapter = "iris" /\ call.op \in {"insertRows", "addRow", "addRows"}

\* C21: in the embedded-database adapter, after every sequence of
\* insertRows, removeRows, setData and sort calls, the stored rows have
\* pairwise different ids; setData leaves the id of every row as it was;
\* and the rows insertRows writes get ids that no stored row has:
\* max(id) + 1, max(id) + 2, ... in the order written, or 0, 1, ... when the
\* table is empty (also for the rows written before a statement failed).
C21_IdsDistinctAndStable ==
    adapter = "iris" =>
        /\ \A i, j \in 1..Len(iris) : i # j => Ids(iris)[i] # Ids(iris)[j]
        /\ call.op = "setData" => Ids(iris) = Ids(pre.iris)
        /\ call.op = "sort" => Ids(iris) = Ids(pre.iris)
        /\ IrisInsertCall =>
             /\ Len(iris) >= Len(pre.iris)
             /\ SubSeq(iris, 1, Len(pre.iris)) = pre.iris
             /\ call.ok => Len(iris) = Len(pre.iris) + call.count
             /\ \A k \in 1..(Len(iris) - Len(pre.iris)) :
                  /\ \A i \in 1..Len(pre.iris) :
                         Ids(iris)[Len(pre.iris) + k] # Ids(pre.iris)[i]
                  /\ IF pre.iris = << >>
                     THEN Ids(iris)[k] = k - 1
                     ELSE /\ \E i \in 1..Len(pre.iris) :
                                Ids(iris)[Len(pre.iris) + k] = Ids(pre.iris)[i] + k
                          /\ \A i \in 1..Len(pre.iris) :
                                Ids(iris)[Len(pre.iris) + k] >= Ids(pre.iris)[i] + k

\* Two rows or more were inserted into a table from which the row id 0 had
\* just been removed, so that the number of rows is not the next free id.
C21_Witness ==
    /\ adapter = "iris"
    /\ Accepted("insertRows")
    /\ call.count >= 2
    /\ prev.op = "removeRows" /\ prev.ok
    /\ Len(pre.iris) >= 1
    /\ \A i \in 1..Len(pre.iris) : Ids(pre.iris)[i] # 0
    /\ Ids(iris)[Len(iris)] > Len(iris) - 1

=============================================================================
